---- MODULE Spec2Model ----
(***************************************************************************)
(* Model of the /submit handler of src/app.py (submit_application), of    *)
(* its chat routes (get_initial_greeting, chat) and of the spintax         *)
(* renderer described in section 4.1 of the specification.                 *)
(*                                                                         *)
(* Strings whose characters matter (emails, spintax text) are sequences of *)
(* one-character strings; opaque strings are TLA+ strings.                 *)
(***************************************************************************)
EXTENDS Integers, Sequences, FiniteSets, TLC

\* ------------------------------------------------------------------ bounds

\* Number of /submit requests handled in one behaviour.
MaxSubmits == 3

\* Longest spintax text rendered, apart from the named examples.
MaxLen == 5

\* Number of /chat/greeting and /chat requests made on the session.
MaxChats == 3

\* ------------------------------------------------------------- form inputs

\* full_name stands for every opaque NOT NULL column of Submission
\* (full_name, phone, contact_method, address, city, state, zip_code): the
\* handler copies each from the form unchanged and none may be NULL.
FilledNames == {"Jane Doe"}

\* What request.form.get returns for a field the form does not carry.
NONE == "None"

Names == FilledNames \cup {NONE}

\* Raw email field values: already normalized, upper case, padded, no "@".
Emails ==
    { <<"j", "@", "x">>, <<"J", "@", "X">>, <<" ", "j", "@", "x">>, <<"j", "x">> }

\* A hidden anti-bot field of the form; the handler never reads it.
Honeypots == {"", "http://spam"}

\* g-recaptcha-response: absent, empty, or a token.
Tokens == {NONE, "", "tok"}

Forms == [name : Names, email : Emails, honeypot : Honeypots, token : Tokens]

\* What the siteverify call can produce:
\*   accept           a JSON object with success = true
\*   reject           a JSON object whose success is false or absent
\*   neterror         requests.post raises a RequestException (connection, timeout)
\*   json_not_object  the body is JSON but no object (a list, a string, null)
\*   not_json         the body is not JSON: Response.json() raises
VerifierAnswers ==
    {"accept", "reject", "neterror", "json_not_object", "not_json"}

\* What db.session.add/commit can do apart from the constraint check.
DbAnswers == {"ok", "error"}

\* What building and sending the notification mail can do.
MailAnswers == {"ok", "template_error", "api_error", "timeout"}

\* ------------------------------------------------------------------- state

VARIABLES
    store,             \* committed rows of Submission, in insertion order
    pc,                \* position of the request in submit_application
    form,              \* request.form of the request being handled
    recaptcha_result,  \* what the siteverify call produced (NONE: not called)
    new_id,            \* new_submission.id once committed, 0 before
    trace,             \* stages the request has executed, in order
    flashes,           \* messages flashed by the request: <<category, key>>
    redirect,          \* endpoint the response redirects to (NONE: no response)
    nSubmits,          \* requests received so far
    sp_input,          \* the text Render was called with
    sp_text,           \* the text Render is rewriting
    sp_pc,             \* position of Render: "loop" or "done"
    llm,               \* the module's llm: "ready", or NONE when its init failed
    rag_retriever,     \* the module's rag_retriever: "ready" or NONE
    chat_history,      \* session['chat_history']; <<>> when the key is absent
    chat_request,      \* the last chat request: its message and the LLM's answer
    chat_status,       \* HTTP status of the last chat response (0: none yet)
    nChats             \* chat requests made so far

submit_vars ==
    <<store, pc, form, recaptcha_result, new_id, trace, flashes, redirect,
      nSubmits>>

spintax_vars == <<sp_input, sp_text, sp_pc>>

chat_vars ==
    <<llm, rag_retriever, chat_history, chat_request, chat_status, nChats>>

vars == <<submit_vars, spintax_vars, chat_vars>>

Range(s) == {s[i] : i \in 1..Len(s)}

\* Python truthiness of an optional string: None and "" are falsy.
Truthy(v) == v # NONE /\ v # ""

NoForm == [name |-> NONE, email |-> <<>>, honeypot |-> "", token |-> NONE]

SubmitInit ==
    /\ store = <<>>
    /\ pc = "idle"
    /\ form = NoForm
    /\ recaptcha_result = NONE
    /\ new_id = 0
    /\ trace = <<>>
    /\ flashes = <<>>
    /\ redirect = NONE
    /\ nSubmits = 0

NoChatRequest == [route |-> NONE, message |-> NONE, answer |-> NONE]

\* A session on which no chat request has been made.
ChatQuiet ==
    /\ chat_history = <<>>
    /\ chat_request = NoChatRequest
    /\ chat_status = 0
    /\ nChats = 0

\* No Render call is in progress.
SpintaxQuiet == sp_input = <<>> /\ sp_text = <<>> /\ sp_pc = "done"

\* The handler never renders spintax and does not touch the chat session.
Init ==
    /\ SubmitInit
    /\ SpintaxQuiet
    /\ ChatQuiet /\ llm = "ready" /\ rag_retriever = "ready"

\* ------------------------------------------------------------- the handler

\* POST /submit arrives: the locals are read from the form (lines 231-240).
Receive(f) ==
    /\ pc \in {"idle", "done"}
    /\ nSubmits < MaxSubmits
    /\ nSubmits' = nSubmits + 1
    /\ form' = f
    /\ recaptcha_result' = NONE
    /\ new_id' = 0
    /\ trace' = <<>>
    /\ flashes' = <<>>
    /\ redirect' = NONE
    /\ pc' = "recaptcha_token"
    /\ UNCHANGED <<store, spintax_vars, chat_vars>>

\* flash(...) and return redirect(url_for(endpoint)).
Respond(category, key, endpoint) ==
    /\ flashes' = Append(flashes, <<category, key>>)
    /\ redirect' = endpoint
    /\ pc' = "done"

\* The outer except: rollback, flash the server error, redirect to index.
\* db.session.rollback() discards what the request added: store is unchanged.
ServerErrorHandler ==
    /\ Respond("error", "server_error", "index")
    /\ UNCHANGED <<store, new_id>>

\* if not recaptcha_response: (lines 243-246)
CheckToken ==
    /\ pc = "recaptcha_token"
    /\ IF ~Truthy(form.token)
          THEN Respond("error", "recaptcha_missing", "index")
          ELSE pc' = "recaptcha_verify" /\ UNCHANGED <<flashes, redirect>>
    /\ UNCHANGED <<store, form, recaptcha_result, new_id, trace, nSubmits>>
    /\ UNCHANGED <<spintax_vars, chat_vars>>

\* The siteverify call and the reading of its answer (lines 256-274).
\* caught: whether the exception Response.json() raises on a non-JSON body is
\* a RequestException; it is in requests >= 2.27 and is a plain ValueError
\* before, and the repository pins no version.
VerifyCaptcha(answer, caught) ==
    /\ pc = "recaptcha_verify"
    /\ recaptcha_result' = answer
    /\ trace' = Append(trace, "captcha")
    /\ CASE answer = "accept" ->
              pc' = "save" /\ UNCHANGED <<flashes, redirect>>
         [] answer = "reject" ->
              Respond("error", "recaptcha_failed", "index")
         [] answer = "neterror" ->
              Respond("error", "recaptcha_unavailable", "index")
         [] answer = "not_json" /\ caught ->
              Respond("error", "recaptcha_unavailable", "index")
         [] answer = "not_json" /\ ~caught ->
              Respond("error", "server_error", "index")
         [] answer = "json_not_object" ->
              Respond("error", "server_error", "index")
    /\ UNCHANGED <<store, form, new_id, nSubmits, spintax_vars, chat_vars>>

\* The row the handler builds (lines 278-288); id is assigned by the commit.
NewSubmission ==
    [id |-> Len(store) + 1, full_name |-> form.name, email |-> form.email]

\* nullable=False on every column the form fills (lines 62-70).
ViolatesNotNull(row) == row.full_name = NONE \/ row.email = NONE

\* add and commit succeeded: the row is stored, success is flashed (289-292).
SaveOk ==
    /\ store' = Append(store, NewSubmission)
    /\ new_id' = Len(store) + 1
    /\ flashes' = Append(flashes, <<"success", "submitted">>)
    /\ pc' = "email"
    /\ UNCHANGED redirect

\* A handler that swallowed the failed save and went on to notify.
SaveFailedThenNotifies ==
    /\ pc' = "email"
    /\ UNCHANGED <<store, new_id, flashes, redirect>>

\* A handler that answered a failed save by attempting the save again.
SaveFailedThenRetries ==
    /\ pc' = "save"
    /\ UNCHANGED <<store, new_id, flashes, redirect>>

\* add or commit raised: control goes to the outer except (lines 327-331).
SaveFailed == ServerErrorHandler

\* db.session.add(new_submission); db.session.commit() (lines 289-290).
Save(db) ==
    /\ pc = "save"
    /\ trace' = Append(trace, "persistence")
    /\ IF db = "error" \/ ViolatesNotNull(NewSubmission)
          THEN SaveFailed
          ELSE SaveOk
    /\ UNCHANGED <<form, recaptcha_result, nSubmits, spintax_vars, chat_vars>>

\* A failure of the mail is caught by the inner except: a warning is flashed.
MailFailed == flashes' = Append(flashes, <<"warning", "email_failed">>)

\* The notification mail and the final redirect (lines 294-325).
SendEmail(mail) ==
    /\ pc = "email"
    /\ trace' = Append(trace, "notification")
    /\ IF mail = "ok" THEN UNCHANGED flashes ELSE MailFailed
    /\ redirect' = "thankyou_page"
    /\ pc' = "done"
    /\ UNCHANGED <<store, form, recaptcha_result, new_id, nSubmits>>
    /\ UNCHANGED <<spintax_vars, chat_vars>>

Next ==
    \/ \E f \in Forms : Receive(f)
    \/ CheckToken
    \/ \E answer \in VerifierAnswers, caught \in BOOLEAN :
          VerifyCaptcha(answer, caught)
    \/ \E db \in DbAnswers : Save(db)
    \/ \E mail \in MailAnswers : SendEmail(mail)

Spec == Init /\ [][Next]_vars

\* ---------------------------------------------------------------- outcomes

Flashed(key) == \E i \in 1..Len(flashes) : flashes[i][2] = key

\* The outcome the caller sees, read off the response.
Outcome ==
    CASE redirect = "thankyou_page" -> "Success"
      [] redirect = "index" /\ Flashed("server_error") -> "ServerError"
      [] redirect = "index" /\ ~Flashed("server_error") -> "Rejected"
      [] OTHER -> NONE

\* ----------------------------------------------------- SpintaxEngine.Render

Alphabet == {"{", "}", "|", "a", "b"}

\* Every text of the given length over the alphabet.
Texts(n) == [1..n -> Alphabet]

\* The texts the specification names: {a|b}, {a|{b|c}}, {x.
Examples ==
    { <<"{", "a", "|", "b", "}">>,
      <<"{", "a", "|", "{", "b", "|", "c", "}", "}">>,
      <<"{", "x">> }

SpintaxInputs == (UNION {Texts(n) : n \in 0..MaxLen}) \cup Examples

IsBrace(c) == c = "{" \/ c = "}"

\* Starts of the groups "{...}" with no brace between the two braces, and the
\* index of the closing brace of the group starting at i.
CloseOf(t, i) ==
    CHOOSE j \in (i + 1)..Len(t) :
        t[j] = "}" /\ \A k \in (i + 1)..(j - 1) : ~IsBrace(t[k])

GroupStarts(t) ==
    {i \in 1..Len(t) :
        /\ t[i] = "{"
        /\ \E j \in (i + 1)..Len(t) :
              t[j] = "}" /\ \A k \in (i + 1)..(j - 1) : ~IsBrace(t[k])}

\* The first innermost group: the leftmost of them.
FirstGroup(t) == CHOOSE i \in GroupStarts(t) : \A k \in GroupStarts(t) : i <= k

\* A splitter that does not split: the whole content is the only option.
OptionsUnsplit(content) == <<content>>

\* The content of a group split on "|"; an empty option is an option.
RECURSIVE Options(_)
Options(content) ==
    IF \A i \in 1..Len(content) : content[i] # "|"
       THEN <<content>>
       ELSE LET b == CHOOSE i \in 1..Len(content) :
                        content[i] = "|" /\ \A k \in 1..(i - 1) : content[k] # "|"
            IN <<SubSeq(content, 1, b - 1)>>
                   \o Options(SubSeq(content, b + 1, Len(content)))

\* The options of the first innermost group of t; none when t has no group.
GroupOptions(t) ==
    IF GroupStarts(t) = {}
       THEN <<>>
       ELSE LET i == FirstGroup(t) IN Options(SubSeq(t, i + 1, CloseOf(t, i) - 1))

\* t with its first innermost group, braces included, replaced by option k.
Rewrite(t, k) ==
    LET i == FirstGroup(t)
        j == CloseOf(t, i)
    IN SubSeq(t, 1, i - 1) \o GroupOptions(t)[k] \o SubSeq(t, j + 1, Len(t))

\* A loop that goes on while a "{" remains, group or no group.
LoopContinuesWhileBrace(t) == "{" \in Range(t)

\* The loop goes on while a "{" remains and an innermost group is found.
LoopContinues(t) == "{" \in Range(t) /\ GroupStarts(t) # {}

SpintaxInit ==
    /\ SubmitInit
    /\ ChatQuiet /\ llm = "ready" /\ rag_retriever = "ready"
    /\ sp_input \in SpintaxInputs
    /\ sp_text = sp_input
    /\ sp_pc = "loop"

\* One rewrite: the randomness source picks option k of the group.
RenderStep(k) ==
    /\ sp_pc = "loop"
    /\ LoopContinues(sp_text)
    /\ k \in 1..Len(GroupOptions(sp_text))
    /\ sp_text' = Rewrite(sp_text, k)
    /\ UNCHANGED <<sp_input, sp_pc, submit_vars, chat_vars>>

\* No group is left: Render returns the text as it stands.
RenderReturn ==
    /\ sp_pc = "loop"
    /\ ~LoopContinues(sp_text)
    /\ sp_pc' = "done"
    /\ UNCHANGED <<sp_input, sp_text, submit_vars, chat_vars>>

SpintaxNext ==
    \/ \E k \in 1..Len(GroupOptions(sp_text)) : RenderStep(k)
    \/ RenderReturn

\* Render is a sequential loop: while a step is possible, one is taken.
SpecSpintax ==
    SpintaxInit /\ [][SpintaxNext]_vars /\ WF_vars(SpintaxNext)

\* ------------------------------------------------- /chat/greeting and /chat

\* request.json.get('message'): absent, empty, or a question.
ChatMessages == {"hi", "fee?", NONE, ""}

\* What similarity_search gives: chunks, no chunk, or an exception.
RagAnswers == {"chunks", "empty", "error"}

\* What llm.invoke gives: a reply, or an exception.
LlmAnswers == {"Hello", "No fee", "error"}

Msg(type, content) == [type |-> type, content |-> content]

\* The loop that rebuilds the messages from the stored dicts keeps the
\* human, ai and system entries, type and content, in order (lines 160-167);
\* model_dump writes type and content back (lines 152, 215, 222).
FromDicts(dicts) ==
    SelectSeq(dicts, LAMBDA d : d.type \in {"human", "ai", "system"})

\* The system prompt chosen from the retrieved context (lines 172-195).
SystemPrompt(rag) ==
    IF rag_retriever # NONE /\ rag = "chunks"
       THEN "prompt_with_context"
       ELSE "prompt_without_context"

\* The first message is made the system prompt: replaced when it is a system
\* message, inserted before the others when it is not (lines 197-200).
WithSystemPrompt(history, prompt) ==
    IF history # <<>> /\ history[1].type = "system"
       THEN [history EXCEPT ![1].content = prompt]
       ELSE <<Msg("system", prompt)>> \o history

\* An except branch that stores the history as it stands.
KeepLastMessage(history) == history

\* The except branch drops a trailing human message (lines 220-221).
PopUnanswered(history) ==
    IF history # <<>> /\ history[Len(history)].type = "human"
       THEN SubSeq(history, 1, Len(history) - 1)
       ELSE history

\* What the module's initialisation leaves: llm and rag_retriever are set
\* once, each to a client or to None (lines 111-133).
ChatInit ==
    /\ SubmitInit
    /\ SpintaxQuiet
    /\ ChatQuiet
    /\ llm \in {"ready", NONE}
    /\ rag_retriever \in {"ready", NONE}

\* GET /chat/greeting: the session gets the system prompt and the greeting.
Greeting ==
    /\ nChats < MaxChats
    /\ nChats' = nChats + 1
    /\ chat_history' =
          <<Msg("system", "prompt_greeting"), Msg("ai", "greeting")>>
    /\ chat_request' =
          [route |-> "/chat/greeting", message |-> NONE, answer |-> NONE]
    /\ chat_status' = 200
    /\ UNCHANGED <<llm, rag_retriever, submit_vars, spintax_vars>>

\* POST /chat with the message, what the retriever and the LLM answer.
Chat(message, rag, answer) ==
    /\ nChats < MaxChats
    /\ nChats' = nChats + 1
    /\ LET conversation == FromDicts(chat_history)
           asked == Append(WithSystemPrompt(conversation, SystemPrompt(rag)),
                           Msg("human", message))
           failed == llm = NONE \/ answer = "error"
       IN IF ~Truthy(message)
             THEN /\ chat_status' = 400
                  /\ chat_request' =
                        [route |-> "/chat", message |-> message,
                         answer |-> NONE]
                  /\ UNCHANGED chat_history
             ELSE /\ chat_request' =
                        [route |-> "/chat", message |-> message,
                         answer |-> IF failed THEN "error" ELSE answer]
                  /\ IF failed
                        THEN /\ chat_history' = PopUnanswered(asked)
                             /\ chat_status' = 500
                        ELSE /\ chat_history' = Append(asked, Msg("ai", answer))
                             /\ chat_status' = 200
    /\ UNCHANGED <<llm, rag_retriever, submit_vars, spintax_vars>>

ChatNext ==
    \/ Greeting
    \/ \E message \in ChatMessages, rag \in RagAnswers, answer \in LlmAnswers :
          Chat(message, rag, answer)

SpecChat == ChatInit /\ [][ChatNext]_vars

\* ------------------------------------- what the specification says of Render

Count(c, t) == Cardinality({i \in 1..Len(t) : t[i] = c})

\* No "{" of t is followed, anywhere later, by a "}".
NoClosedGroup(t) ==
    ~\E i, j \in 1..Len(t) : i < j /\ t[i] = "{" /\ t[j] = "}"

\* Nesting depth after the first n characters of t.
Depth(t, n) == Count("{", SubSeq(t, 1, n)) - Count("}", SubSeq(t, 1, n))

\* Well-formed: every brace has its partner.
Balanced(t) == Depth(t, Len(t)) = 0 /\ \A n \in 1..Len(t) : Depth(t, n) >= 0

\* Positions of the "|" of t that lie outside every group of t.
TopBars(t) == {i \in 1..Len(t) : t[i] = "|" /\ Depth(t, i) = 0}

\* t cut at its top-level bars, as a set of pieces.
TopOptions(t) ==
    LET cuts == {0, Len(t) + 1} \cup TopBars(t) IN
    {SubSeq(t, a + 1, b - 1) :
        <<a, b>> \in {p \in cuts \X cuts :
            p[1] < p[2] /\ ~\E c \in cuts : p[1] < c /\ c < p[2]}}

\* What a balanced text can render to, read from the outside in: a character
\* outside every group stands for itself, and a group stands for what one of
\* its options renders to.
RECURSIVE Expansions(_)
Expansions(t) ==
    IF t = <<>>
       THEN {<<>>}
       ELSE IF Head(t) # "{"
               THEN {<<Head(t)>> \o r : r \in Expansions(Tail(t))}
               ELSE LET m == CHOOSE n \in 1..Len(t) :
                                 Depth(t, n) = 0
                                   /\ \A k \in 1..(n - 1) : Depth(t, k) > 0
                        inner == SubSeq(t, 2, m - 1)
                        rest == SubSeq(t, m + 1, Len(t))
                        picks == UNION {Expansions(o) : o \in TopOptions(inner)}
                    IN {x \o r : x \in picks, r \in Expansions(rest)}

\* The group closed by the first "}" of t: the innermost, leftmost group.
FirstClose(t) == CHOOSE j \in 1..Len(t) : t[j] = "}" /\ \A k \in 1..(j - 1) : t[k] # "}"

LastOpenBefore(t, j) ==
    CHOOSE i \in 1..(j - 1) : t[i] = "{" /\ \A k \in (i + 1)..(j - 1) : t[k] # "{"

\* ------------------------------------------ what the specification expects

\* Lower-casing of one character.
Lower(c) == CASE c = "J" -> "j" [] c = "X" -> "x" [] OTHER -> c

RECURSIVE StripLeft(_)
StripLeft(s) == IF s # <<>> /\ Head(s) = " " THEN StripLeft(Tail(s)) ELSE s

RECURSIVE StripRight(_)
StripRight(s) ==
    IF s # <<>> /\ s[Len(s)] = " "
       THEN StripRight(SubSeq(s, 1, Len(s) - 1))
       ELSE s

\* The normalized form of an email: trimmed, then lower case.
Normalize(s) ==
    LET t == StripRight(StripLeft(s)) IN [i \in 1..Len(t) |-> Lower(t[i])]

\* The shape check of the validation stage, reduced to what the inputs here
\* can differ in: one "@" with something on both sides of it.
FormatOk(s) ==
    LET t == Normalize(s) IN
    /\ Cardinality({i \in 1..Len(t) : t[i] = "@"}) = 1
    /\ Len(t) > 0 /\ t[1] # "@" /\ t[Len(t)] # "@"

\* A row stored before this request carries the same normalized email.
IsDuplicate ==
    \E i \in 1..Len(store) :
        i # new_id /\ Normalize(store[i].email) = Normalize(form.email)

Executed(stage) == stage \in Range(trace)

\* The request attempted the save and no row was committed.
SaveAttemptFailed == Executed("persistence") /\ new_id = 0

\* ------------------------------------------------------------------ claims

\* C1: when Save fails (add or commit raises) no notifier is invoked for the
\* submission, the caller gets the server-error outcome, and the store holds
\* no record for the submission: the failing step leaves the store as it was.
C1_SaveFailureIsFatal ==
    /\ [](pc = "done" /\ SaveAttemptFailed =>
             /\ ~Executed("notification")
             /\ Outcome = "ServerError")
    /\ [][pc = "save" /\ new_id' = 0 =>
             store' = store /\ pc' = "done"]_vars

C1_Witness ==
    pc = "done" /\ SaveAttemptFailed /\ Outcome = "ServerError" /\ Len(store) > 0

\* C2: when Save succeeded, a failure of the email notifier leaves the
\* outcome at success, the record in the store, and the chat alert notifier
\* is still invoked for the submission.
C2_EmailFailureIsolated ==
    pc = "done" /\ new_id # 0 /\ Flashed("email_failed") =>
        /\ Outcome = "Success"
        /\ new_id \in 1..Len(store) /\ store[new_id].email = form.email
        /\ Executed("chat_alert")

\* C3: the captcha gate is fail-closed: a missing token, success = false, a
\* network error and a malformed response each end in the rejection outcome
\* (not server error, not success), with nothing persisted or notified.
C3_CaptchaFailClosed ==
    pc = "done" /\ (~Truthy(form.token) \/ recaptcha_result \notin {NONE, "accept"}) =>
        /\ Outcome = "Rejected"
        /\ new_id = 0
        /\ ~Executed("persistence")
        /\ ~Executed("notification")

\* C4: every request ends in exactly one of the terminal states, and a stage
\* runs only when every earlier stage of honeypot, validation, captcha,
\* duplicate check, persistence, notification has passed.
C4_StagesInOrder ==
    pc = "done" =>
        /\ Outcome \in {"Rejected", "ServerError", "Success"}
        /\ Executed("captcha") => form.honeypot = "" /\ FormatOk(form.email)
        /\ Executed("persistence") =>
              /\ form.honeypot = "" /\ FormatOk(form.email)
              /\ recaptcha_result = "accept"
              /\ ~IsDuplicate
        /\ Executed("notification") => new_id # 0

\* C5: a second submission of an email whose normalized form is already
\* stored (honeypot empty, email valid, captcha accepted) is a no-op: it
\* returns success, stores nothing and calls no notifier, so the store keeps
\* exactly one record for that email.
C5_DuplicateIsNoop ==
    form.honeypot = "" /\ FormatOk(form.email)
      /\ recaptcha_result = "accept" /\ IsDuplicate =>
        /\ new_id = 0
        /\ ~Executed("notification")
        /\ Cardinality({i \in 1..Len(store) :
              Normalize(store[i].email) = Normalize(form.email)}) = 1
        /\ pc = "done" => Outcome = "Success"

\* C6: no two stored records have the same email.
C6_EmailUnique ==
    \A i, j \in 1..Len(store) : store[i].email = store[j].email => i = j

\* C7: a request whose honeypot field is non-empty ends in success with no
\* record persisted, no notifier invoked and no later stage executed.
C7_HoneypotSilentSuccess ==
    pc = "done" /\ form.honeypot # "" =>
        /\ Outcome = "Success"
        /\ new_id = 0
        /\ trace = <<>>

\* C8: every persisted record holds the submitted email trimmed and in lower
\* case.
C8_StoredEmailNormalized ==
    /\ \A i \in 1..Len(store) : store[i].email = Normalize(store[i].email)
    /\ pc = "done" /\ new_id # 0 => store[new_id].email = Normalize(form.email)

\* C9: Render terminates on every input: each rewrite removes one innermost
\* group (one "{" and one "}"), the loop stops when a "{" remains without an
\* innermost group, and an input with no "{" or with only an unterminated "{"
\* is returned unchanged.
C9_RenderTerminates ==
    /\ <>(sp_pc = "done")
    /\ [][sp_text' # sp_text =>
             /\ Count("{", sp_text') = Count("{", sp_text) - 1
             /\ Count("}", sp_text') = Count("}", sp_text) - 1]_vars
    /\ [](sp_pc = "done" /\ NoClosedGroup(sp_input) => sp_text = sp_input)

C9_Witness ==
    /\ sp_pc = "done"
    /\ sp_input = <<"{", "x">>
    /\ sp_text = <<"{", "x">>

\* C10: for every choice of the randomness source, a well-formed expression
\* renders to one option of each resolved group with no brace left ({a|b} to a
\* or b, {a|{b|c}} to a, b or c), and each rewrite resolves the innermost,
\* leftmost group: the one closed by the first "}".
C10_RenderPicksOneOption ==
    /\ [](sp_pc = "done" /\ Balanced(sp_input) =>
             /\ \A i \in 1..Len(sp_text) : ~IsBrace(sp_text[i])
             /\ sp_text \in Expansions(sp_input)
             /\ sp_input = <<"{", "a", "|", "b", "}">> =>
                   sp_text \in {<<"a">>, <<"b">>}
             /\ sp_input = <<"{", "a", "|", "{", "b", "|", "c", "}", "}">> =>
                   sp_text \in {<<"a">>, <<"b">>, <<"c">>})
    /\ [][Balanced(sp_input) /\ sp_text' # sp_text =>
             LET j == FirstClose(sp_text)
                 i == LastOpenBefore(sp_text, j)
                 n == Len(sp_text') - (Len(sp_text) - j)
             IN /\ SubSeq(sp_text', 1, i - 1) = SubSeq(sp_text, 1, i - 1)
                /\ SubSeq(sp_text', n + 1, Len(sp_text'))
                      = SubSeq(sp_text, j + 1, Len(sp_text))
                /\ SubSeq(sp_text', i, n)
                      \in TopOptions(SubSeq(sp_text, i + 1, j - 1))]_vars

C10_Witness ==
    /\ sp_pc = "done"
    /\ sp_input = <<"{", "a", "|", "{", "b", "|", "c", "}", "}">>
    /\ sp_text = <<"c">>

\* C11: no step is retried within one request: the captcha verification
\* call, the save and the notifier's outbound call are each attempted at most
\* once, also when the attempt fails.
C11_NoRetry ==
    \A stage \in {"captcha", "persistence", "notification", "chat_alert"} :
        Count(stage, trace) <= 1

C11_Witness ==
    /\ pc = "done"
    /\ Flashed("email_failed")
    /\ trace = <<"captcha", "persistence", "notification">>

\* The stored history without a leading system message.
Dialogue(history) ==
    IF history # <<>> /\ history[1].type = "system" THEN Tail(history) ELSE history

\* C12: after any sequence of /chat/greeting and /chat requests the stored
\* history holds no unanswered user message: every human message is directly
\* followed by an ai message. A /chat request whose LLM invocation fails
\* stores the history without the message it appended, and a /chat request
\* with an empty message returns 400 and leaves the stored history unchanged.
C12_NoUnansweredMessage ==
    /\ [](\A i \in 1..Len(chat_history) :
             chat_history[i].type = "human" =>
                i < Len(chat_history) /\ chat_history[i + 1].type = "ai")
    /\ [][nChats' # nChats /\ chat_request'.route = "/chat"
             /\ chat_request'.answer = "error" =>
             /\ chat_status' = 500
             /\ Dialogue(chat_history') = Dialogue(chat_history)
             /\ chat_history'[1].type = "system"]_vars
    /\ [][nChats' # nChats /\ chat_request'.route = "/chat"
             /\ chat_request'.message \in {NONE, ""} =>
             chat_status' = 400 /\ chat_history' = chat_history]_vars

\* A failed request after an answered one: the answered exchange is kept and
\* the failed question is not stored.
C12_Witness ==
    /\ chat_status = 500
    /\ chat_request.message = "fee?"
    /\ Len(chat_history) = 3
    /\ chat_history[2] = Msg("human", "hi")
    /\ chat_history[3].type = "ai"

====
